---- MODULE Spec2Model ----
(***************************************************************************)
(* A model of the logger plugin of src/src/lib.rs: the nine process-wide   *)
(* statics behind their mutexes, the three C entry points initialize,      *)
(* execute and teardown, and rotate_log_file, stepped one lock access or   *)
(* one system call at a time, over a working directory of files and a      *)
(* console.  An entry point called by a host thread runs from its Call     *)
(* step to pc = "done" (it returned a status) or pc = "panicked" (an       *)
(* unwrap/expect/index panic left the function without a status).          *)
(***************************************************************************)
EXTENDS Integers, Sequences, FiniteSets, TLC

\* ------------------------------------------------------------------ bounds

\* The UTC clock counts seconds 1..MaxClock.
MaxClock == 2
\* Calls the single-threaded host makes in one run, per entry point.
MaxInit == 1
MaxExec == 3
MaxTeardown == 1
\* Calls the multi-threaded host makes in one run, per entry point.
ConcCalls == 1

Threads == {1, 2}

\* --------------------------------------------------------- text and names

\* File names and paths are sequences of characters, so that prefix tests,
\* concatenation and the byte order of sort() are computed, not assumed.
Ascii ==
  << "-", ".", "/", "0", "1", "2", "3", "4", "5", "6", "7", "8", "9", "_",
     "a", "b", "c", "d", "e", "f", "g", "h", "i", "j", "k", "l", "m", "n",
     "o", "p", "q", "r", "s", "t", "u", "v", "w", "x", "y", "z" >>

CharCode(c) == CHOOSE i \in 1..Len(Ascii) : Ascii[i] = c

\* str::starts_with
StartsWith(s, prefix) ==
  /\ Len(s) >= Len(prefix)
  /\ SubSeq(s, 1, Len(prefix)) = prefix

\* The order of String's Ord: bytewise lexicographic, a proper prefix first.
RECURSIVE LexLess(_, _)
LexLess(a, b) ==
  IF a = <<>> THEN b # <<>>
  ELSE IF b = <<>> THEN FALSE
  ELSE IF CharCode(Head(a)) # CharCode(Head(b))
       THEN CharCode(Head(a)) < CharCode(Head(b))
  ELSE LexLess(Tail(a), Tail(b))

\* Vec::sort on the listed paths.
RECURSIVE SortPaths(_)
SortPaths(S) ==
  IF S = {} THEN <<>>
  ELSE LET least == CHOOSE x \in S : \A y \in S \ {x} : LexLess(x, y)
       IN  <<least>> \o SortPaths(S \ {least})

Digit(n) == Ascii[4 + n]

\* chrono's "%Y-%m-%d_%H-%M-%S": fixed width, zero padded, one value per
\* second; here two decimal digits of the second count.
ArchiveStamp(now) == << Digit((now \div 10) % 10), Digit(now % 10) >>

\* chrono's DateTime<Utc>::to_string, for the log line.
LineStamp(now) == ToString(now) \o " UTC"

\* "default.log", the default log file, and "log.txt", a log file whose name
\* begins with "log".
DefaultLog == << "d", "e", "f", "a", "u", "l", "t", ".", "l", "o", "g" >>
LogTxt == << "l", "o", "g", ".", "t", "x", "t" >>
LogPrefix == << "l", "o", "g" >>
DotSlash == << ".", "/" >>
DotLog == << ".", "l", "o", "g" >>

\* format!("{}_{}.log", log_file_path, timestamp)
ArchiveName(path, now) == path \o << "_" >> \o ArchiveStamp(now) \o DotLog

\* ------------------------------------------------------------------ levels

Levels == << "Debug", "Info", "Warn", "Error" >>
LevelSet == { Levels[i] : i \in 1..Len(Levels) }

\* The order the enum would have were its variants declared in the order of
\* the Display match (Info first).
LevelOrdInfoFirst(l) ==
  CHOOSE i \in 1..4 : << "Info", "Debug", "Warn", "Error" >>[i] = l

\* #[derive(PartialOrd, Ord)]: declaration order.
LevelOrd(l) ==
  CHOOSE i \in 1..Len(Levels) : Levels[i] = l

\* `input_data.level < min_level`
LevelLess(a, b) ==
  LevelOrd(a) < LevelOrd(b)

\* impl Display for LogLevel
LevelDisplay(l) ==
  CASE l = "Info" -> "INFO"
    [] l = "Debug" -> "DEBUG"
    [] l = "Warn" -> "WARN"
    [] l = "Error" -> "ERROR"

\* str::to_lowercase on the level texts the hosts send.
ToLowercase(s) ==
  CASE s = "INFO" -> "info"
    [] s = "Info" -> "info"
    [] s = "DEBUG" -> "debug"
    [] s = "Debug" -> "debug"
    [] s = "WARN" -> "warn"
    [] s = "Warn" -> "warn"
    [] s = "ERROR" -> "error"
    [] s = "Error" -> "error"
    [] s = "VERBOSE" -> "verbose"
    [] OTHER -> s

ParseErr == "Err"

\* impl FromStr for LogLevel, reached through Deserialize (which lowercases
\* once more before parsing).
LevelFromStr(s) ==
  LET t == ToLowercase(s)
  IN  CASE t = "info" -> "Info"
        [] t = "debug" -> "Debug"
        [] t = "warn" -> "Warn"
        [] t = "error" -> "Error"
        [] OTHER -> ParseErr

DeserializeLevel(s) == LevelFromStr(ToLowercase(s))

\* --------------------------------------------------------- configuration

default_log_file == DefaultLog
default_log_to_file == TRUE
default_log_to_console == TRUE
default_minimum_log_level == "Info"
default_max_log_file_size == 10 * 1024 * 1024
default_max_log_file_count == 5
default_enable_log_rotation == TRUE
default_log_to_file_colored == TRUE

Field(obj, key, default) == IF key \in DOMAIN obj THEN obj[key] ELSE default

\* A payload is [wellformed, obj]: whether the text is a JSON object at all,
\* and the members it has.  serde_json::from_str::<PluginConfig>: app_name is
\* required, every other member has its default, a level must parse.
NoConfig == [ok |-> FALSE]

ParsePluginConfig(payload) ==
  LET obj == payload.obj
      lvl == IF "minimum_log_level" \in DOMAIN obj
             THEN DeserializeLevel(obj["minimum_log_level"])
             ELSE default_minimum_log_level
  IN  IF \/ ~payload.wellformed
         \/ "app_name" \notin DOMAIN obj
         \/ lvl = ParseErr
      THEN NoConfig
      ELSE [ ok |-> TRUE,
             app_name |-> obj["app_name"],
             log_file |-> Field(obj, "log_file", default_log_file),
             log_to_file |-> Field(obj, "log_to_file", default_log_to_file),
             log_to_console |->
               Field(obj, "log_to_console", default_log_to_console),
             minimum_log_level |-> lvl,
             max_log_file_size |->
               Field(obj, "max_log_file_size", default_max_log_file_size),
             max_log_file_count |->
               Field(obj, "max_log_file_count", default_max_log_file_count),
             enable_log_rotation |->
               Field(obj, "enable_log_rotation", default_enable_log_rotation),
             log_to_file_colored |->
               Field(obj, "log_to_file_colored", default_log_to_file_colored) ]

NoInput == [ok |-> FALSE]

\* serde_json::from_str::<ExecutionInput>: message is required, level
\* defaults to Info, app_name and sub_app_name are optional.
ParseExecutionInput(payload) ==
  LET obj == payload.obj
      lvl == IF "level" \in DOMAIN obj
             THEN DeserializeLevel(obj["level"])
             ELSE default_minimum_log_level
  IN  IF \/ ~payload.wellformed
         \/ "message" \notin DOMAIN obj
         \/ lvl = ParseErr
      THEN NoInput
      ELSE [ ok |-> TRUE,
             message |-> obj["message"],
             level |-> lvl,
             has_app_name |-> "app_name" \in DOMAIN obj,
             app_name |-> Field(obj, "app_name", ""),
             has_sub_app_name |-> "sub_app_name" \in DOMAIN obj,
             sub_app_name |-> Field(obj, "sub_app_name", "") ]

\* ------------------------------------------------------------- the statics

Statics ==
  { "APP_NAME", "LOG_FILE", "LOG_TO_FILE", "LOG_TO_CONSOLE", "MIN_LOG_LEVEL",
    "MAX_LOG_FILE_SIZE", "MAX_LOG_FILE_COUNT", "ENABLE_LOG_ROTATION",
    "LOG_TO_FILE_COLORED" }

\* The LazyLock initialisers.
InitialStore ==
  [ APP_NAME |-> "",
    LOG_FILE |-> <<>>,
    LOG_TO_FILE |-> FALSE,
    LOG_TO_CONSOLE |-> FALSE,
    MIN_LOG_LEVEL |-> "Info",
    MAX_LOG_FILE_SIZE |-> 10 * 1024 * 1024,
    MAX_LOG_FILE_COUNT |-> 5,
    ENABLE_LOG_ROTATION |-> TRUE,
    LOG_TO_FILE_COLORED |-> FALSE ]

\* ------------------------------------------------------------------- state

VARIABLES
  store,    \* the value behind each of the nine mutexes
  owner,    \* which thread holds each mutex (0: free)
  dir,      \* the working directory: file name -> inode
  data,     \* inode -> the lines of the file
  console,  \* standard output, line by line
  stderr,   \* standard error, line by line
  clock,    \* the UTC second
  pc,       \* where each host thread is in its call
  loc,      \* the locals of each thread's call
  ret,      \* how each thread's latest call ended
  pre,      \* per thread: store, files and console as its call began
  ops,      \* per thread: the file and console operations its call has made
  quota,    \* calls the host may still make, per entry point
  host,     \* the host's calling discipline: "serial" or "concurrent"
  lifecycle,\* the latest of configure and shutdown: "fresh", "configured", "shut"
  aborted   \* a panic has aborted the process

vars ==
  << store, owner, dir, data, console, stderr, clock, pc, loc, ret, pre, ops,
     quota, host, lifecycle, aborted >>

NoFiles == [n \in {} |-> 0]

NoLocals ==
  [ config |-> NoConfig, k |-> 0, input_data |-> NoInput,
    min_level |-> "Info", app_name |-> "", log_message |-> "",
    log_message_plain |-> "", log_file_path |-> <<>>, enable_rotation |-> FALSE,
    max_size |-> 0, max_count |-> 0, log_files |-> <<>>, file |-> 0,
    colored |-> FALSE,
    \* what the call has read from the statics, in order, and whether a
    \* system call of it failed for a reason outside the program
    seen |-> <<>>, fault |-> FALSE ]

NoRet == [op |-> "none", outcome |-> "none", code |-> 0]

NoPre ==
  [store |-> InitialStore, dir |-> NoFiles, data |-> NoFiles, console |-> <<>>]

InitCommon ==
  /\ store = InitialStore
  /\ owner = [f \in Statics |-> 0]
  /\ console = <<>>
  /\ stderr = <<>>
  /\ clock = 1
  /\ pc = [t \in Threads |-> "idle"]
  /\ loc = [t \in Threads |-> NoLocals]
  /\ ret = [t \in Threads |-> NoRet]
  /\ pre = [t \in Threads |-> NoPre]
  /\ ops = [t \in Threads |-> <<>>]
  /\ lifecycle = "fresh"
  /\ aborted = FALSE

NoCalls == [initialize |-> 0, execute |-> 0, teardown |-> 0]

\* The calls each thread of a host makes in one run.  The serial host makes
\* all its calls on thread 1; the concurrent host emits on thread 1 while it
\* configures and shuts down on thread 2; the configurers configure on both
\* threads (and shut down on one); the emitters emit on both threads, one of
\* them after configuring.
CallBudget(kind) ==
  CASE kind = "serial" ->
         (1 :> [initialize |-> MaxInit, execute |-> MaxExec,
                teardown |-> MaxTeardown])
         @@ (2 :> NoCalls)
    [] kind = "concurrent" ->
         (1 :> [NoCalls EXCEPT !.execute = ConcCalls])
         @@ (2 :> [NoCalls EXCEPT !.initialize = ConcCalls,
                                  !.teardown = ConcCalls])
    [] kind = "configurers" ->
         (1 :> [NoCalls EXCEPT !.initialize = ConcCalls])
         @@ (2 :> [NoCalls EXCEPT !.initialize = ConcCalls,
                                  !.teardown = ConcCalls])
    [] kind = "emitters" ->
         (1 :> [NoCalls EXCEPT !.initialize = ConcCalls,
                               !.execute = ConcCalls])
         @@ (2 :> [NoCalls EXCEPT !.execute = ConcCalls])

\* A host that makes its calls one after the other on one thread.
Init ==
  /\ InitCommon
  /\ dir = NoFiles
  /\ data = NoFiles
  /\ host = "serial"
  /\ quota = CallBudget("serial")

\* ------------------------------------------------------------- file system

Range(f) == { f[x] : x \in DOMAIN f }

\* A length that counts the lines of the file, not its bytes.
LineCount(lines) ==
  Len(lines)

RECURSIVE Bytes(_)
\* The bytes of a file written by writeln!: each line and its newline.
Bytes(lines) ==
  IF lines = <<>> THEN 0 ELSE Len(Head(lines)) + 1 + Bytes(Tail(lines))

Handles(l) == { l[t].file : t \in Threads } \ {0}

\* An inode lives while a name or an open handle refers to it.
Live(d, dt, handles) ==
  [i \in (Range(d) \cup handles) \cap DOMAIN dt |-> dt[i]]

FreshInode == CHOOSE i \in 1..(Cardinality(DOMAIN data) + 1) : i \notin DOMAIN data

Unlink(d, name) == [n \in DOMAIN d \ {name} |-> d[n]]

\* rename(2): the target name now refers to the source's inode, replacing
\* whatever it referred to.
Renamed(d, from, to) ==
  [n \in (DOMAIN d \ {from}) \cup {to} |-> IF n = to THEN d[from] ELSE d[n]]

\* Path::display of a read_dir(".") entry, and its resolution by the kernel.
Display(name) == DotSlash \o name
Resolve(path) ==
  IF StartsWith(path, DotSlash) THEN SubSeq(path, 3, Len(path)) ELSE path

\* read_dir(".") filtered to the files whose name starts with "log".
ListLogFiles(d) ==
  { Display(n) : n \in { m \in DOMAIN d : StartsWith(m, LogPrefix) } }

Op(name, a, b, ok) == [op |-> name, name |-> a, target |-> b, ok |-> ok]

\* --------------------------------------------------------------- messages

\* colored's ANSI decoration.
Paint(code, s) == "ESC[" \o code \o "m" \o s \o "ESC[0m"

LevelColor(l) ==
  CASE l = "Debug" -> "34"
    [] l = "Info" -> "32"
    [] l = "Warn" -> "33"
    [] l = "Error" -> "31"

\* The two steps in the other order: the sub-component name is appended to
\* the configured name, and an override then replaces the whole path.
ResolveAppNameOverrideLast(configured, input) ==
  LET path == IF input.has_sub_app_name
              THEN configured \o " -> " \o input.sub_app_name
              ELSE configured
  IN  IF input.has_app_name THEN input.app_name ELSE path

\* The app-name path of a record under the configured name.
ResolveAppName(configured, input) ==
  LET base == IF input.has_app_name THEN input.app_name ELSE configured
  IN  IF input.has_sub_app_name
      THEN base \o " -> " \o input.sub_app_name
      ELSE base

\* format!("[{}] [{}] {}: {}", ...) over the colored parts.
FormatColored(timestamp, level, app_name, message) ==
  "[" \o Paint("91", timestamp) \o "] ["
      \o Paint(LevelColor(level), LevelDisplay(level)) \o "] "
      \o Paint("36", app_name) \o ": " \o Paint("37", message)

\* format!("[{}] [{}] {}: {}", ...) over the plain parts.
FormatPlain(timestamp, level, app_name, message) ==
  "[" \o timestamp \o "] [" \o LevelDisplay(level) \o "] "
      \o app_name \o ": " \o message

\* ------------------------------------------------------- what hosts send

Json(obj) == [wellformed |-> TRUE, obj |-> obj]
Malformed == [wellformed |-> FALSE, obj |-> NoFiles]

\* Rotation at any size, for a log file whose name does not begin with
\* "log" and one whose name does, over the retention counts.
RotationPayloads ==
  { Json(("app_name" :> "svc") @@ ("log_file" :> f[1])
         @@ ("max_log_file_size" :> 0) @@ ("max_log_file_count" :> f[2])
         @@ ("log_to_console" :> FALSE) @@ ("log_to_file_colored" :> FALSE))
      : f \in { <<DefaultLog, 0>>, <<DefaultLog, 1>>, <<LogTxt, 1>>,
                <<LogTxt, 2>> } }
  \cup
  { Json(("app_name" :> "svc") @@ ("log_file" :> LogTxt)
         @@ ("max_log_file_size" :> 0) @@ ("enable_log_rotation" :> FALSE)
         @@ ("log_to_console" :> FALSE)) }

LevelPayloads ==
  { Json(("app_name" :> "svc") @@ ("minimum_log_level" :> l))
      : l \in {"debug", "WARN", "Error"} }

OutputPayloads ==
  { Json("app_name" :> "svc"),
    Json(("app_name" :> "svc") @@ ("log_to_file" :> FALSE)),
    Json(("app_name" :> "svc") @@ ("log_to_file" :> FALSE)
         @@ ("log_to_console" :> FALSE) @@ ("minimum_log_level" :> "debug")) }

BadPayloads ==
  { Malformed,
    Json("log_file" :> LogTxt),
    Json(("app_name" :> "svc") @@ ("minimum_log_level" :> "VERBOSE")) }

\* A threshold of exactly one plain line of this host's records: the second
\* emit finds the file at the threshold, the third finds it above.
OneLine == Bytes(<< FormatPlain(LineStamp(1), "Info", "svc", "m1") >>)

ThresholdPayloads ==
  { Json(("app_name" :> "svc") @@ ("max_log_file_size" :> OneLine)
         @@ ("log_to_console" :> FALSE) @@ ("log_to_file_colored" :> FALSE)) }

\* Two configurations that differ in every field a configure writes first
\* and last.
ConfigurerPayloads ==
  { Json(("app_name" :> "svc") @@ ("log_to_file_colored" :> FALSE)),
    Json(("app_name" :> "other") @@ ("minimum_log_level" :> "debug")) }

\* Rotation at any size with the default retention count, and with a log
\* file whose name begins with "log" and a retention count of one.
EmitterPayloads ==
  { Json(("app_name" :> "svc") @@ ("max_log_file_size" :> 0)
         @@ ("log_to_file_colored" :> FALSE)),
    Json(("app_name" :> "svc") @@ ("log_file" :> LogTxt)
         @@ ("max_log_file_size" :> 0) @@ ("max_log_file_count" :> 1)
         @@ ("log_to_console" :> FALSE) @@ ("log_to_file_colored" :> FALSE)) }

Payloads ==
  CASE host = "serial" ->
         RotationPayloads \cup ThresholdPayloads \cup LevelPayloads
           \cup OutputPayloads \cup BadPayloads
    [] host = "concurrent" ->
         { Json(("app_name" :> "svc") @@ ("minimum_log_level" :> "debug")
                @@ ("log_file" :> LogTxt) @@ ("max_log_file_size" :> 0)
                @@ ("max_log_file_count" :> 1)
                @@ ("log_to_file_colored" :> FALSE)) }
    [] host = "configurers" -> ConfigurerPayloads
    [] host = "emitters" -> EmitterPayloads

\* The n-th record's message: hosts send a different message each time, so
\* that a line in a file names the call that wrote it.
MessageOf(n) == "m" \o ToString(n)

\* A record with nothing but its message.
PlainInput(n) == Json("message" :> MessageOf(n))

\* Records of every level, with and without the two names, and malformed.
VariedInputs(n) ==
  { Malformed,
    PlainInput(n),
    Json(("message" :> MessageOf(n)) @@ ("sub_app_name" :> "db")),
    Json(("message" :> MessageOf(n)) @@ ("app_name" :> "other")),
    Json(("message" :> MessageOf(n)) @@ ("app_name" :> "other")
         @@ ("sub_app_name" :> "db")) }
  \cup { Json(("message" :> MessageOf(n)) @@ ("level" :> l))
           : l \in {"debug", "WARN", "error"} }

\* The serial host's run ends with a record of any kind, after plain ones.
Inputs(n, last) ==
  IF host = "serial"
  THEN IF n = last THEN VariedInputs(n) ELSE {PlainInput(n)}
  ELSE {PlainInput(n)}

\* ------------------------------------------------------------ call frames

\* A host thread may start a call when it is in none and has calls left to
\* make; the serial host calls on one thread, so its calls never overlap.
CanCall(t, entry) ==
  /\ ~aborted
  /\ pc[t] = "idle"
  /\ quota[t][entry] > 0

Snapshot == [store |-> store, dir |-> dir, data |-> data, console |-> console]

Returned(op, code) == [op |-> op, outcome |-> "returned", code |-> code]
Panicked(op) == [op |-> op, outcome |-> "panicked", code |-> 0]

\* The mutex a thread is about to lock, by where it is.
InitOrder ==
  << "APP_NAME", "LOG_FILE", "LOG_TO_FILE", "LOG_TO_CONSOLE", "MIN_LOG_LEVEL",
     "MAX_LOG_FILE_SIZE", "MAX_LOG_FILE_COUNT", "ENABLE_LOG_ROTATION",
     "LOG_TO_FILE_COLORED" >>

\* A teardown that leaves console output on.
TeardownOrderWithoutConsole == << "APP_NAME", "LOG_FILE", "LOG_TO_FILE" >>

TeardownOrder == << "APP_NAME", "LOG_FILE", "LOG_TO_FILE", "LOG_TO_CONSOLE" >>

LockPoints ==
  { "i_write", "t_write", "x_min", "x_app", "x_console", "x_to_file",
    "r_enable", "r_file", "r_size", "r_count", "x_file", "x_colored" }

Wanted(t) ==
  CASE pc[t] = "i_write" -> InitOrder[loc[t].k]
    [] pc[t] = "t_write" -> TeardownOrder[loc[t].k]
    [] pc[t] = "x_min" -> "MIN_LOG_LEVEL"
    [] pc[t] = "x_app" -> "APP_NAME"
    [] pc[t] = "x_console" -> "LOG_TO_CONSOLE"
    [] pc[t] = "x_to_file" -> "LOG_TO_FILE"
    [] pc[t] = "r_enable" -> "ENABLE_LOG_ROTATION"
    [] pc[t] = "r_file" -> "LOG_FILE"
    [] pc[t] = "r_size" -> "MAX_LOG_FILE_SIZE"
    [] pc[t] = "r_count" -> "MAX_LOG_FILE_COUNT"
    [] pc[t] = "x_file" -> "LOG_FILE"
    [] pc[t] = "x_colored" -> "LOG_TO_FILE_COLORED"

\* Mutex::lock: blocks while another thread holds the mutex.
Acquire(t) ==
  /\ ~aborted
  /\ pc[t] \in LockPoints
  /\ owner[Wanted(t)] = 0
  /\ owner' = [owner EXCEPT ![Wanted(t)] = t]
  /\ UNCHANGED << store, dir, data, console, stderr, clock, pc, loc, ret, pre,
                  ops, quota, host, lifecycle, aborted >>

\* The thread is at `at` and holds the mutex it locks there.
Holding(t, at) ==
  /\ ~aborted
  /\ pc[t] = at
  /\ owner[Wanted(t)] = t

\* The guard is dropped at the end of the statement (or of the if condition).
Release(t) == owner' = [owner EXCEPT ![Wanted(t)] = 0]

Tick ==
  /\ ~aborted
  /\ clock < MaxClock
  /\ clock' = clock + 1
  /\ UNCHANGED << store, owner, dir, data, console, stderr, pc, loc, ret, pre,
                  ops, quota, host, lifecycle, aborted >>

\* The entry point returned its status: control is back in the host.
Return(t) ==
  /\ ~aborted
  /\ pc[t] = "done"
  /\ pc' = [pc EXCEPT ![t] = "idle"]
  /\ loc' = [loc EXCEPT ![t] = NoLocals]
  /\ pre' = [pre EXCEPT ![t] = NoPre]
  /\ ops' = [ops EXCEPT ![t] = <<>>]
  /\ UNCHANGED << store, owner, dir, data, console, stderr, clock, ret, quota,
                  host, lifecycle, aborted >>

\* A panic in an extern "C" function aborts the process ...
Abort(t) ==
  /\ ~aborted
  /\ pc[t] = "panicked"
  /\ aborted' = TRUE
  /\ UNCHANGED << store, owner, dir, data, console, stderr, clock, pc, loc,
                  ret, pre, ops, quota, host, lifecycle >>

\* ... or, on a toolchain that lets it, unwinds into the host's frames: the
\* call ends without a status.  No mutex guard is alive at any panic site.
Unwind(t) ==
  /\ ~aborted
  /\ pc[t] = "panicked"
  /\ pc' = [pc EXCEPT ![t] = "idle"]
  /\ loc' = [loc EXCEPT ![t] = NoLocals]
  /\ pre' = [pre EXCEPT ![t] = NoPre]
  /\ ops' = [ops EXCEPT ![t] = <<>>]
  /\ data' = Live(dir, data, Handles(loc'))
  /\ UNCHANGED << store, owner, dir, console, stderr, clock, ret, quota, host,
                  lifecycle, aborted >>

\* -------------------------------------------------------------- initialize

ConfigValue(config, static) ==
  CASE static = "APP_NAME" -> config.app_name
    [] static = "LOG_FILE" -> config.log_file
    [] static = "LOG_TO_FILE" -> config.log_to_file
    [] static = "LOG_TO_CONSOLE" -> config.log_to_console
    [] static = "MIN_LOG_LEVEL" -> config.minimum_log_level
    [] static = "MAX_LOG_FILE_SIZE" -> config.max_log_file_size
    [] static = "MAX_LOG_FILE_COUNT" -> config.max_log_file_count
    [] static = "ENABLE_LOG_ROTATION" -> config.enable_log_rotation
    [] static = "LOG_TO_FILE_COLORED" -> config.log_to_file_colored

\* initialize, up to serde_json::from_str(..).unwrap().
InitializeCall(t) ==
  /\ CanCall(t, "initialize")
  /\ \E payload \in Payloads :
       LET config == ParsePluginConfig(payload)
       IN  /\ loc' = [loc EXCEPT ![t] = [NoLocals EXCEPT !.config = config, !.k = 1]]
           /\ IF config.ok
              THEN /\ pc' = [pc EXCEPT ![t] = "i_write"]
                   /\ ret' = [ret EXCEPT ![t] = NoRet]
              ELSE /\ pc' = [pc EXCEPT ![t] = "panicked"]
                   /\ ret' = [ret EXCEPT ![t] = Panicked("initialize")]
  /\ quota' = [quota EXCEPT ![t].initialize = @ - 1]
  /\ pre' = [pre EXCEPT ![t] = Snapshot]
  /\ ops' = [ops EXCEPT ![t] = <<>>]
  /\ lifecycle' = "configured"
  /\ UNCHANGED << store, owner, dir, data, console, stderr, clock, host,
                  aborted >>

\* One of the nine assignments *STATIC.lock().unwrap() = config.field, in
\* the order of the source; after the last, initialize returns 0.
InitializeWrite(t) ==
  /\ Holding(t, "i_write")
  /\ store' = [store EXCEPT ![Wanted(t)] = ConfigValue(loc[t].config, Wanted(t))]
  /\ Release(t)
  /\ IF loc[t].k = Len(InitOrder)
     THEN /\ pc' = [pc EXCEPT ![t] = "done"]
          /\ ret' = [ret EXCEPT ![t] = Returned("initialize", 0)]
          /\ loc' = loc
     ELSE /\ loc' = [loc EXCEPT ![t].k = @ + 1]
          /\ UNCHANGED << pc, ret >>
  /\ UNCHANGED << dir, data, console, stderr, clock, pre, ops, quota, host,
                  lifecycle, aborted >>

\* ---------------------------------------------------------------- teardown

\* What teardown stores in each static it touches: clear() and false.
TeardownValue(static) ==
  CASE static = "APP_NAME" -> ""
    [] static = "LOG_FILE" -> <<>>
    [] static = "LOG_TO_FILE" -> FALSE
    [] static = "LOG_TO_CONSOLE" -> FALSE

TeardownCall(t) ==
  /\ CanCall(t, "teardown")
  /\ pc' = [pc EXCEPT ![t] = "t_write"]
  /\ loc' = [loc EXCEPT ![t] = [NoLocals EXCEPT !.k = 1]]
  /\ ret' = [ret EXCEPT ![t] = NoRet]
  /\ quota' = [quota EXCEPT ![t].teardown = @ - 1]
  /\ pre' = [pre EXCEPT ![t] = Snapshot]
  /\ ops' = [ops EXCEPT ![t] = <<>>]
  /\ UNCHANGED << store, owner, dir, data, console, stderr, clock, host,
                  lifecycle, aborted >>

\* One of teardown's four statements; after the last, teardown returns 0.
TeardownWrite(t) ==
  /\ Holding(t, "t_write")
  /\ store' = [store EXCEPT ![Wanted(t)] = TeardownValue(Wanted(t))]
  /\ Release(t)
  /\ IF loc[t].k = Len(TeardownOrder)
     THEN /\ pc' = [pc EXCEPT ![t] = "done"]
          /\ ret' = [ret EXCEPT ![t] = Returned("teardown", 0)]
          /\ loc' = loc
          /\ lifecycle' = "shut"
     ELSE /\ loc' = [loc EXCEPT ![t].k = @ + 1]
          /\ UNCHANGED << pc, ret, lifecycle >>
  /\ UNCHANGED << dir, data, console, stderr, clock, pre, ops, quota, host,
                  aborted >>

\* ----------------------------------------------------------------- execute

RECURSIVE Total(_, _)
Total(q, T) ==
  IF T = {} THEN 0
  ELSE LET t == CHOOSE u \in T : TRUE
       IN  q[t].execute + Total(q, T \ {t})

\* Which execute call of the run this is.
CallNumber == Total(CallBudget(host), Threads) - Total(quota, Threads) + 1

Goto(t, at) == pc' = [pc EXCEPT ![t] = at]

Finish(t, code) ==
  /\ pc' = [pc EXCEPT ![t] = "done"]
  /\ ret' = [ret EXCEPT ![t] = Returned("execute", code)]

Panic(t) ==
  /\ pc' = [pc EXCEPT ![t] = "panicked"]
  /\ ret' = [ret EXCEPT ![t] = Panicked("execute")]

Did(t, op) == ops' = [ops EXCEPT ![t] = Append(@, op)]

\* The locals after reading the static the thread has locked.
Saw(t) == [loc[t] EXCEPT !.seen = Append(@, << Wanted(t), store[Wanted(t)] >>)]

\* execute, up to serde_json::from_str(..).unwrap().
ExecuteCall(t) ==
  /\ CanCall(t, "execute")
  /\ \E payload \in Inputs(CallNumber, Total(CallBudget(host), Threads)) :
       LET input_data == ParseExecutionInput(payload)
       IN  /\ loc' = [loc EXCEPT ![t] = [NoLocals EXCEPT !.input_data = input_data]]
           /\ IF input_data.ok
              THEN /\ pc' = [pc EXCEPT ![t] = "x_min"]
                   /\ ret' = [ret EXCEPT ![t] = NoRet]
              ELSE Panic(t)
  /\ quota' = [quota EXCEPT ![t].execute = @ - 1]
  /\ pre' = [pre EXCEPT ![t] = Snapshot]
  /\ ops' = [ops EXCEPT ![t] = <<>>]
  /\ UNCHANGED << store, owner, dir, data, console, stderr, clock, host,
                  lifecycle, aborted >>

\* let min_level = ...; if input_data.level < min_level { return 0; }
ReadMinLevel(t) ==
  /\ Holding(t, "x_min")
  /\ Release(t)
  /\ loc' = [loc EXCEPT ![t] = [Saw(t) EXCEPT !.min_level = store.MIN_LOG_LEVEL]]
  /\ IF LevelLess(loc[t].input_data.level, store.MIN_LOG_LEVEL)
     THEN Finish(t, 0)
     ELSE Goto(t, "x_app") /\ ret' = ret
  /\ UNCHANGED << store, dir, data, console, stderr, clock, pre, ops, quota,
                  host, lifecycle, aborted >>

\* An execute that writes the app-name path back through the guard.
ReadAppNameStored(t) ==
  /\ Holding(t, "x_app")
  /\ Release(t)
  /\ LET input == loc[t].input_data
         app_name == ResolveAppName(store.APP_NAME, input)
         timestamp == LineStamp(clock)
     IN  loc' = [loc EXCEPT ![t] =
                   [Saw(t) EXCEPT
                      !.app_name = app_name,
                      !.log_message =
                        FormatColored(timestamp, input.level, app_name,
                                      input.message),
                      !.log_message_plain =
                        FormatPlain(timestamp, input.level, app_name,
                                    input.message)]]
  /\ store' = [store EXCEPT !.APP_NAME =
               ResolveAppName(store.APP_NAME, loc[t].input_data)]
  /\ Goto(t, "x_console")
  /\ UNCHANGED << dir, data, console, stderr, clock, ret, pre, ops,
                  quota, host, lifecycle, aborted >>

\* The app-name path, the timestamp and both renderings of the line.
ReadAppName(t) ==
  /\ Holding(t, "x_app")
  /\ Release(t)
  /\ LET input == loc[t].input_data
         app_name == ResolveAppName(store.APP_NAME, input)
         timestamp == LineStamp(clock)
     IN  loc' = [loc EXCEPT ![t] =
                   [Saw(t) EXCEPT
                      !.app_name = app_name,
                      !.log_message =
                        FormatColored(timestamp, input.level, app_name,
                                      input.message),
                      !.log_message_plain =
                        FormatPlain(timestamp, input.level, app_name,
                                    input.message)]]
  /\ Goto(t, "x_console")
  /\ UNCHANGED << store, dir, data, console, stderr, clock, ret, pre, ops,
                  quota, host, lifecycle, aborted >>

\* if *LOG_TO_CONSOLE.lock().unwrap()
ReadLogToConsole(t) ==
  /\ Holding(t, "x_console")
  /\ Release(t)
  /\ loc' = [loc EXCEPT ![t] = Saw(t)]
  /\ Goto(t, IF store.LOG_TO_CONSOLE THEN "x_print" ELSE "x_to_file")
  /\ UNCHANGED << store, dir, data, console, stderr, clock, ret, pre, ops,
                  quota, host, lifecycle, aborted >>

\* A println! that puts the line before the lines already printed.
PrintlnAtFront(t) ==
  /\ ~aborted
  /\ pc[t] = "x_print"
  /\ console' = << loc[t].log_message >> \o console
  /\ Did(t, Op("print", <<>>, <<>>, TRUE))
  /\ Goto(t, "x_to_file")
  /\ UNCHANGED << store, owner, dir, data, stderr, clock, loc, ret, pre, quota,
                  host, lifecycle, aborted >>

\* println!("{}", log_message)
Println(t) ==
  /\ ~aborted
  /\ pc[t] = "x_print"
  /\ console' = Append(console, loc[t].log_message)
  /\ Did(t, Op("print", <<>>, <<>>, TRUE))
  /\ Goto(t, "x_to_file")
  /\ UNCHANGED << store, owner, dir, data, stderr, clock, loc, ret, pre, quota,
                  host, lifecycle, aborted >>

\* if *LOG_TO_FILE.lock().unwrap(); without file output execute returns 0.
ReadLogToFile(t) ==
  /\ Holding(t, "x_to_file")
  /\ Release(t)
  /\ loc' = [loc EXCEPT ![t] = Saw(t)]
  /\ IF store.LOG_TO_FILE
     THEN Goto(t, "r_enable") /\ ret' = ret
     ELSE Finish(t, 0)
  /\ UNCHANGED << store, dir, data, console, stderr, clock, pre, ops, quota,
                  host, lifecycle, aborted >>

\* A rotate_log_file that reads the flag and goes on whatever it is.
ReadEnableRotationIgnored(t) ==
  /\ Holding(t, "r_enable")
  /\ Release(t)
  /\ loc' = [loc EXCEPT ![t] =
               [Saw(t) EXCEPT !.enable_rotation = store.ENABLE_LOG_ROTATION]]
  /\ Goto(t, "r_file")
  /\ UNCHANGED << store, dir, data, console, stderr, clock, ret, pre, ops,
                  quota, host, lifecycle, aborted >>

\* rotate_log_file: if !enable_rotation { return; }
ReadEnableRotation(t) ==
  /\ Holding(t, "r_enable")
  /\ Release(t)
  /\ loc' = [loc EXCEPT ![t] =
               [Saw(t) EXCEPT !.enable_rotation = store.ENABLE_LOG_ROTATION]]
  /\ Goto(t, IF store.ENABLE_LOG_ROTATION THEN "r_file" ELSE "x_file")
  /\ UNCHANGED << store, dir, data, console, stderr, clock, ret, pre, ops,
                  quota, host, lifecycle, aborted >>

\* rotate_log_file: let log_file_path = LOG_FILE.lock().unwrap().clone()
ReadRotationPath(t) ==
  /\ Holding(t, "r_file")
  /\ Release(t)
  /\ loc' = [loc EXCEPT ![t] = [Saw(t) EXCEPT !.log_file_path = store.LOG_FILE]]
  /\ Goto(t, "r_size")
  /\ UNCHANGED << store, dir, data, console, stderr, clock, ret, pre, ops,
                  quota, host, lifecycle, aborted >>

\* rotate_log_file: let max_size = *MAX_LOG_FILE_SIZE.lock().unwrap()
ReadMaxSize(t) ==
  /\ Holding(t, "r_size")
  /\ Release(t)
  /\ loc' = [loc EXCEPT ![t] =
               [Saw(t) EXCEPT !.max_size = store.MAX_LOG_FILE_SIZE]]
  /\ Goto(t, "r_count")
  /\ UNCHANGED << store, dir, data, console, stderr, clock, ret, pre, ops,
                  quota, host, lifecycle, aborted >>

\* rotate_log_file: let max_count = *MAX_LOG_FILE_COUNT.lock().unwrap()
ReadMaxCount(t) ==
  /\ Holding(t, "r_count")
  /\ Release(t)
  /\ loc' = [loc EXCEPT ![t] =
               [Saw(t) EXCEPT !.max_count = store.MAX_LOG_FILE_COUNT]]
  /\ Goto(t, "r_stat")
  /\ UNCHANGED << store, dir, data, console, stderr, clock, ret, pre, ops,
                  quota, host, lifecycle, aborted >>

\* rotate_log_file: std::fs::metadata; rotation goes on only when the stat
\* succeeds and metadata.len() > max_size.
Metadata(t) ==
  /\ ~aborted
  /\ pc[t] = "r_stat"
  /\ \E ok \in BOOLEAN :
       LET path == loc[t].log_file_path
       IN  /\ Goto(t, IF /\ ok
                         /\ path \in DOMAIN dir
                         /\ Bytes(data[dir[path]]) > loc[t].max_size
                      THEN "r_list" ELSE "x_file")
           /\ loc' = [loc EXCEPT ![t].fault = @ \/ ~ok]
  /\ UNCHANGED << store, owner, dir, data, console, stderr, clock, ret, pre,
                  ops, quota, host, lifecycle, aborted >>

\* rotate_log_file: read_dir(".").unwrap(), the filter on "log", sort(), and
\* the test log_files.len() >= max_count with log_files.remove(0), which
\* panics on an empty vector.
ReadDir(t) ==
  /\ ~aborted
  /\ pc[t] = "r_list"
  /\ \E ok \in BOOLEAN :
       LET log_files == SortPaths(ListLogFiles(dir))
       IN  IF ~ok
           THEN Panic(t) /\ loc' = [loc EXCEPT ![t].fault = TRUE]
           ELSE /\ loc' = [loc EXCEPT ![t].log_files = log_files]
                /\ IF Len(log_files) >= loc[t].max_count
                   THEN IF log_files = <<>>
                        THEN Panic(t)
                        ELSE Goto(t, "r_remove") /\ ret' = ret
                   ELSE Goto(t, "r_rename") /\ ret' = ret
  /\ UNCHANGED << store, owner, dir, data, console, stderr, clock, pre, ops,
                  quota, host, lifecycle, aborted >>

\* rotate_log_file: std::fs::remove_file(file_to_remove).unwrap_or(())
RemoveFile(t) ==
  /\ ~aborted
  /\ pc[t] = "r_remove"
  /\ LET file_to_remove == Resolve(Head(loc[t].log_files))
     IN  \E ok \in BOOLEAN :
           /\ IF ok /\ file_to_remove \in DOMAIN dir
              THEN /\ dir' = Unlink(dir, file_to_remove)
                   /\ data' = Live(dir', data, Handles(loc))
                   /\ Did(t, Op("remove", file_to_remove, <<>>, TRUE))
              ELSE /\ UNCHANGED << dir, data >>
                   /\ Did(t, Op("remove", file_to_remove, <<>>, FALSE))
           /\ loc' = [loc EXCEPT ![t].log_files = Tail(@),
                                 ![t].fault = @ \/ ~ok]
  /\ Goto(t, "r_rename")
  /\ UNCHANGED << store, owner, console, stderr, clock, ret, pre, quota, host,
                  lifecycle, aborted >>

\* rotate_log_file: the archive name from the clock, and
\* std::fs::rename(&log_file_path, archive_name).unwrap()
Rename(t) ==
  /\ ~aborted
  /\ pc[t] = "r_rename"
  /\ LET path == loc[t].log_file_path
         archive_name == ArchiveName(path, clock)
     IN  \E ok \in BOOLEAN :
           /\ IF ok /\ path \in DOMAIN dir
              THEN /\ dir' = Renamed(dir, path, archive_name)
                   /\ data' = Live(dir', data, Handles(loc))
                   /\ Did(t, Op("rename", path, archive_name, TRUE))
                   /\ Goto(t, "x_file")
                   /\ ret' = ret
              ELSE /\ UNCHANGED << dir, data >>
                   /\ Did(t, Op("rename", path, archive_name, FALSE))
                   /\ Panic(t)
           /\ loc' = [loc EXCEPT ![t].fault = @ \/ ~ok]
  /\ UNCHANGED << store, owner, console, stderr, clock, pre, quota, host,
                  lifecycle, aborted >>

\* execute: let log_file_path = LOG_FILE.lock().unwrap().clone()
ReadLogFile(t) ==
  /\ Holding(t, "x_file")
  /\ Release(t)
  /\ loc' = [loc EXCEPT ![t] = [Saw(t) EXCEPT !.log_file_path = store.LOG_FILE]]
  /\ Goto(t, "x_open")
  /\ UNCHANGED << store, dir, data, console, stderr, clock, ret, pre, ops,
                  quota, host, lifecycle, aborted >>

\* OpenOptions::new().create(true).append(true).open(..).expect(..): the
\* empty path cannot be opened; an absent file is created.
OpenAppend(t) ==
  /\ ~aborted
  /\ pc[t] = "x_open"
  /\ LET path == loc[t].log_file_path
     IN  \E ok \in BOOLEAN :
           IF ok /\ path # <<>>
           THEN /\ IF path \in DOMAIN dir
                   THEN /\ loc' = [loc EXCEPT ![t].file = dir[path]]
                        /\ UNCHANGED << dir, data >>
                        /\ Did(t, Op("open", path, <<>>, TRUE))
                   ELSE /\ loc' = [loc EXCEPT ![t].file = FreshInode]
                        /\ dir' = (path :> FreshInode) @@ dir
                        /\ data' = data @@ (FreshInode :> <<>>)
                        /\ Did(t, Op("create", path, <<>>, TRUE))
                /\ Goto(t, "x_colored")
                /\ ret' = ret
           ELSE /\ UNCHANGED << dir, data >>
                /\ loc' = [loc EXCEPT ![t].fault = @ \/ ~ok]
                /\ Did(t, Op("open", path, <<>>, FALSE))
                /\ Panic(t)
  /\ UNCHANGED << store, owner, console, stderr, clock, pre, quota, host,
                  lifecycle, aborted >>

\* if *LOG_TO_FILE_COLORED.lock().unwrap()
ReadColored(t) ==
  /\ Holding(t, "x_colored")
  /\ Release(t)
  /\ loc' = [loc EXCEPT ![t] =
               [Saw(t) EXCEPT !.colored = store.LOG_TO_FILE_COLORED]]
  /\ Goto(t, "x_write")
  /\ UNCHANGED << store, dir, data, console, stderr, clock, ret, pre, ops,
                  quota, host, lifecycle, aborted >>

\* writeln!(file, ..): the colored or the plain line; a failure is reported
\* on standard error and as -1, a success as 0.  The file is closed as
\* execute returns.
WriteLine(t) ==
  /\ ~aborted
  /\ pc[t] = "x_write"
  /\ LET line == IF loc[t].colored
                 THEN loc[t].log_message
                 ELSE loc[t].log_message_plain
         file == loc[t].file
     IN  \E ok \in BOOLEAN :
           /\ loc' = [loc EXCEPT ![t].file = 0, ![t].fault = @ \/ ~ok]
           /\ IF ok
              THEN /\ data' = Live(dir, [data EXCEPT ![file] = Append(@, line)],
                                   Handles(loc'))
                   /\ Did(t, Op("append", loc[t].log_file_path, <<>>, TRUE))
                   /\ stderr' = stderr
                   /\ Finish(t, 0)
              ELSE /\ data' = Live(dir, data, Handles(loc'))
                   /\ Did(t, Op("append", loc[t].log_file_path, <<>>, FALSE))
                   /\ stderr' = Append(stderr, "Failed to write to log file")
                   /\ Finish(t, -1)
  /\ UNCHANGED << store, owner, dir, console, clock, pre, quota, host,
                  lifecycle, aborted >>

\* ------------------------------------------------------------ the program

\* The steps of one host thread.
ThreadNext(t) ==
       \/ Acquire(t)
       \/ InitializeCall(t)
       \/ InitializeWrite(t)
       \/ TeardownCall(t)
       \/ TeardownWrite(t)
       \/ ExecuteCall(t)
       \/ ReadMinLevel(t)
       \/ ReadAppName(t)
       \/ ReadLogToConsole(t)
       \/ Println(t)
       \/ ReadLogToFile(t)
       \/ ReadEnableRotation(t)
       \/ ReadRotationPath(t)
       \/ ReadMaxSize(t)
       \/ ReadMaxCount(t)
       \/ Metadata(t)
       \/ ReadDir(t)
       \/ RemoveFile(t)
       \/ Rename(t)
       \/ ReadLogFile(t)
       \/ OpenAppend(t)
       \/ ReadColored(t)
       \/ WriteLine(t)
       \/ Return(t)
       \/ Abort(t)
       \/ Unwind(t)

Next ==
  \/ Tick
  \/ \E t \in Threads : ThreadNext(t)

\* Calls made one after the other by a single host thread.
Spec == Init /\ [][Next]_vars

\* A host whose threads call into the plugin concurrently, in a directory
\* where an earlier run left its log file.
InitConc ==
  /\ InitCommon
  /\ dir = (LogTxt :> 1)
  /\ data = (1 :> << "[0 UTC] [INFO] svc: m0" >>)
  /\ host = "concurrent"
  /\ quota = CallBudget("concurrent")

SpecConc == InitConc /\ [][Next]_vars

\* The concurrent host under a fair scheduler: a thread that can take a step
\* eventually takes one.  Mutex::lock blocks only while another thread holds
\* the mutex, and the file system calls return.
Fairness == \A t \in Threads : WF_vars(ThreadNext(t))

SpecConcFair == InitConc /\ [][Next]_vars /\ Fairness

\* The files an earlier run left: a default.log and a log.txt of one line.
RaceFiles == (DefaultLog :> 1) @@ (LogTxt :> 2)
RaceData ==
  (1 :> << "[0 UTC] [INFO] svc: m0" >>) @@ (2 :> << "[0 UTC] [INFO] svc: n0" >>)

\* A host that races two calls of the same entry point: two configures, or
\* two emits.
InitRace ==
  /\ InitCommon
  /\ dir = RaceFiles
  /\ data = RaceData
  /\ host \in {"configurers", "emitters"}
  /\ quota = CallBudget(host)

SpecRace == InitRace /\ [][Next]_vars

\* ------------------------------------------------- vocabulary of the claims

\* The level order as documented: Debug < Info < Warn < Error.
DocumentedBelow(a, b) ==
  << a, b >> \in { << "Debug", "Info" >>, << "Debug", "Warn" >>,
                   << "Debug", "Error" >>, << "Info", "Warn" >>,
                   << "Info", "Error" >>, << "Warn", "Error" >> }

\* Thread t is in, or at the end of, an execute call whose record parsed.
InExecute(t) == loc[t].input_data.ok

\* Thread t's call has ended, with a status or in a panic.
Ended(t, entry) == pc[t] \in {"done", "panicked"} /\ ret[t].op = entry

Elements(seq) == { seq[i] : i \in 1..Len(seq) }

\* Every line held by a file of the directory.
AllLines(d, dt) == UNION { Elements(dt[d[n]]) : n \in DOMAIN d }

\* name is `<path>_<timestamp>.log`.
IsArchiveOf(name, path) ==
  /\ Len(name) = Len(path) + 1 + Len(ArchiveStamp(0)) + Len(DotLog)
  /\ StartsWith(name, path \o << "_" >>)
  /\ SubSeq(name, Len(name) - Len(DotLog) + 1, Len(name)) = DotLog

Archives(d, path) == { n \in DOMAIN d : IsArchiveOf(n, path) }

Oldest(S) == CHOOSE x \in S : \A y \in S \ {x} : LexLess(x, y)

\* The names of the files thread t's call has removed, in order.
Removed(t) ==
  SelectSeq(ops[t], LAMBDA o : o.op = "remove" /\ o.ok)

\* The successful renames of thread t's call.
Renames(t) ==
  SelectSeq(ops[t], LAMBDA o : o.op = "rename" /\ o.ok)

\* Thread t's call has left console and files as it found them.
Quiet(t) ==
  /\ console = pre[t].console
  /\ dir = pre[t].dir
  /\ data = pre[t].data
  /\ ops[t] = <<>>

\* The line thread t's call writes to the file under the configuration it
\* began with.
FileLine(t) ==
  IF pre[t].store.LOG_TO_FILE_COLORED
  THEN loc[t].log_message
  ELSE loc[t].log_message_plain

ContentOf(d, dt, path) == IF path \in DOMAIN d THEN dt[d[path]] ELSE <<>>

\* ------------------------------------------------------------------ claims

\* C1: rotation never loses log data.  Through a single-threaded emit, every
\* line that was in a file when the call began is still in some file, unless
\* it was in the oldest archive of the log file and that archive was pruned;
\* no rename replaces a file that existed; the active log file is never
\* deleted.
C1_RotationKeepsData ==
  \A t \in Threads :
    InExecute(t) =>
      LET path == pre[t].store.LOG_FILE
          archives == Archives(pre[t].dir, path)
          removed == { o.name : o \in Elements(Removed(t)) }
      IN  /\ \A n \in DOMAIN pre[t].dir :
               \A line \in Elements(pre[t].data[pre[t].dir[n]]) :
                 \/ line \in AllLines(dir, data)
                 \/ n \in removed /\ n \in archives /\ n = Oldest(archives)
          /\ \A o \in Elements(Renames(t)) : o.target \notin DOMAIN pre[t].dir
          /\ path \notin removed

\* C2: level suppression.  An emit of a record whose level is below the
\* minimum (in the documented order Debug < Info < Warn < Error) stops at
\* the level check, writes nothing to console or files and returns 0; a
\* record at or above the minimum goes on: it reads the app name and the
\* console flag, its line is on the console when console output is on, and
\* a call that returns with file output on has attempted the append.
C2_LevelSuppression ==
  \A t \in Threads :
    InExecute(t) =>
      LET level == loc[t].input_data.level
          minimum == pre[t].store.MIN_LOG_LEVEL
      IN  IF DocumentedBelow(level, minimum)
          THEN /\ Quiet(t)
               /\ pc[t] \in {"x_min", "done"}
               /\ pc[t] = "done" => ret[t] = Returned("execute", 0)
          ELSE pc[t] \in {"done", "panicked"} =>
                 /\ Len(loc[t].seen) >= 3
                 /\ pre[t].store.LOG_TO_CONSOLE =>
                      console = Append(pre[t].console, loc[t].log_message)
                 /\ (pre[t].store.LOG_TO_FILE /\ pc[t] = "done") =>
                      ops[t][Len(ops[t])].op = "append"

\* A Warn record suppressed under minimum Error, with both outputs on.
C2_Witness ==
  \E t \in Threads :
    /\ pc[t] = "done"
    /\ InExecute(t)
    /\ loc[t].input_data.level = "Warn"
    /\ store.MIN_LOG_LEVEL = "Error"
    /\ store.LOG_TO_CONSOLE
    /\ store.LOG_TO_FILE
    /\ lifecycle = "configured"
    /\ ret[t] = Returned("execute", 0)

\* C3: size-triggered rotation.  A single-threaded emit with file output and
\* rotation on, none of whose system calls failed for an outside reason,
\* returns; when it found the log file larger than the threshold it renamed
\* it to `<name>_<timestamp>.log` and the log file holds only the new line;
\* otherwise it renamed nothing and appended to what was there.
C3_SizeTriggeredRotation ==
  \A t \in Threads :
    ( /\ InExecute(t)
      /\ pc[t] \in {"done", "panicked"}
      /\ ~loc[t].fault
      /\ ~DocumentedBelow(loc[t].input_data.level, pre[t].store.MIN_LOG_LEVEL)
      /\ pre[t].store.LOG_TO_FILE
      /\ pre[t].store.ENABLE_LOG_ROTATION ) =>
      LET path == pre[t].store.LOG_FILE
          before == ContentOf(pre[t].dir, pre[t].data, path)
          oversized == /\ path \in DOMAIN pre[t].dir
                       /\ Bytes(before) > pre[t].store.MAX_LOG_FILE_SIZE
      IN  /\ pc[t] = "done"
          /\ IF oversized
             THEN /\ Len(Renames(t)) = 1
                  /\ Renames(t)[1].name = path
                  /\ IsArchiveOf(Renames(t)[1].target, path)
                  /\ ContentOf(dir, data, Renames(t)[1].target) = before
                  /\ ContentOf(dir, data, path) = << FileLine(t) >>
             ELSE /\ Renames(t) = <<>>
                  /\ ContentOf(dir, data, path) = Append(before, FileLine(t))

\* C4: retention pruning.  When a rotation of a single-threaded emit has
\* come to its rename with no system call failed for an outside reason:
\* if the archives of the log file numbered at least max_file_count, it
\* deleted exactly one file, the lexicographically smallest archive;
\* otherwise it deleted nothing; the deletion is before the rename.
C4_RetentionPruning ==
  \A t \in Threads :
    (pc[t] = "r_rename" /\ ~loc[t].fault) =>
      LET archives == Archives(pre[t].dir, loc[t].log_file_path)
      IN  /\ Renames(t) = <<>>
          /\ IF Cardinality(archives) >= loc[t].max_count
             THEN /\ archives # {}
                  /\ Len(Removed(t)) = 1
                  /\ Removed(t)[1].name = Oldest(archives)
             ELSE Removed(t) = <<>>

\* C5: a failed open or a failed write of the log file makes emit return
\* -1; a successful append makes it return 0.
C5_FileFailureReturnsMinusOne ==
  \A t \in Threads :
    (Ended(t, "execute") /\ ops[t] # <<>>) =>
      LET last == ops[t][Len(ops[t])]
      IN  /\ (last.op \in {"open", "append"} /\ ~last.ok) =>
               (pc[t] = "done" /\ ret[t] = Returned("execute", -1))
          /\ (last.op = "append" /\ last.ok) =>
               (pc[t] = "done" /\ ret[t] = Returned("execute", 0))

\* C6: a configure whose payload does not parse returns a nonzero status
\* and leaves every field of the store as it was.
C6_ConfigureAllOrNothing ==
  \A t \in Threads :
    (Ended(t, "initialize") /\ ~loc[t].config.ok) =>
      /\ pc[t] = "done"
      /\ ret[t].outcome = "returned"
      /\ ret[t].code # 0
      /\ store = pre[t].store

\* C7: an emit whose record does not parse returns a status other than the
\* 0 of a suppressed record, and produces no console or file output.
C7_MalformedRecordFails ==
  \A t \in Threads :
    (Ended(t, "execute") /\ ~loc[t].input_data.ok) =>
      /\ pc[t] = "done"
      /\ ret[t].outcome = "returned"
      /\ ret[t].code # 0
      /\ Quiet(t)

\* C8: when shutdown returns, all nine fields of the store hold the values
\* they had before any configure, and the status is 0.
C8_ShutdownResetsStore ==
  \A t \in Threads :
    (pc[t] = "done" /\ ret[t].op = "teardown") =>
      /\ store = InitialStore
      /\ ret[t] = Returned("teardown", 0)

\* C9: with the calls made one after the other, an emit of a well-formed
\* record made after a shutdown and before the next configure prints
\* nothing, creates, renames, deletes and appends to no file, and returns 0.
C9_QuietAfterShutdown ==
  \A t \in Threads :
    (lifecycle = "shut" /\ InExecute(t)) =>
      /\ Quiet(t)
      /\ pc[t] # "panicked"
      /\ pc[t] = "done" => ret[t] = Returned("execute", 0)

\* An Info-or-higher record emitted after the shutdown of a configuration
\* that had written a log file.
C9_Witness ==
  \E t \in Threads :
    /\ lifecycle = "shut"
    /\ pc[t] = "done"
    /\ InExecute(t)
    /\ ~DocumentedBelow(loc[t].input_data.level, store.MIN_LOG_LEVEL)
    /\ dir # NoFiles
    /\ ret[t] = Returned("execute", 0)

\* The store a configuration makes once all nine fields are written.
ConfigStore(config) == [s \in Statics |-> ConfigValue(config, s)]

AllFrom(seen, snapshot) ==
  \A i \in 1..Len(seen) : snapshot[seen[i][1]] = seen[i][2]

\* C10: no torn read.  While an emit overlaps a configure, the values the
\* emit has read from the store all come from the store before the
\* configure, or all from the configuration it writes.
C10_NoTornRead ==
  \A t, u \in Threads :
    ( /\ InExecute(t)
      /\ pc[u] \in {"i_write", "done"}
      /\ loc[u].config.ok ) =>
      \/ AllFrom(loc[t].seen, pre[u].store)
      \/ AllFrom(loc[t].seen, ConfigStore(loc[u].config))

\* No teardown has been called in this run.
NoTeardownYet ==
  \A t \in Threads : quota[t].teardown = CallBudget(host)[t].teardown

\* C11: configure atomically replaces the store.  When two concurrent
\* configure calls have both returned (and no shutdown has run), the store
\* equals the configuration of one of them in every field.
C11_ConfigureAtomic ==
  ( /\ \A t \in Threads :
         pc[t] = "done" /\ ret[t] = Returned("initialize", 0)
    /\ NoTeardownYet ) =>
    \E t \in Threads :
      \A s \in Statics : store[s] = ConfigStore(loc[t].config)[s]

\* Thread t's call has come to the rename of a rotation.
RotationTried(t) == \E o \in Elements(ops[t]) : o.op = "rename"

\* The line thread t's call has written to the file.
WrittenLine(t) ==
  IF loc[t].colored THEN loc[t].log_message ELSE loc[t].log_message_plain

\* C12: the rotation race is benign.  When two concurrent emits to
\* default.log have both found it oversized and both come to the rename, and
\* no system call of either failed for an outside reason, neither call
\* panics, every line the directory held before the race is still in some
\* file, and so is every line either call has appended.
C12_RotationRaceBenign ==
  ( /\ host = "emitters"
    /\ \A t \in Threads :
         /\ InExecute(t)
         /\ RotationTried(t)
         /\ loc[t].log_file_path = DefaultLog
         /\ ~loc[t].fault ) =>
    /\ \A t \in Threads : pc[t] # "panicked"
    /\ AllLines(RaceFiles, RaceData) \subseteq AllLines(dir, data)
    /\ \A t \in Threads :
         (\E o \in Elements(ops[t]) : o.op = "append" /\ o.ok) =>
           WrittenLine(t) \in AllLines(dir, data)

\* The app-name path as documented, case by case.
DocumentedPath(configured, input) ==
  CASE ~input.has_app_name /\ ~input.has_sub_app_name -> configured
    [] input.has_app_name /\ ~input.has_sub_app_name -> input.app_name
    [] ~input.has_app_name /\ input.has_sub_app_name ->
         configured \o " -> " \o input.sub_app_name
    [] input.has_app_name /\ input.has_sub_app_name ->
         input.app_name \o " -> " \o input.sub_app_name

\* The plain lines "[<timestamp>] [<LEVEL>] <path>: <message>" over the
\* seconds of the clock.
DocumentedLines(level, path, message) ==
  { "[" \o LineStamp(c) \o "] [" \o level \o "] " \o path \o ": " \o message
      : c \in 1..MaxClock }

UpperName(level) ==
  CASE level = "Debug" -> "DEBUG"
    [] level = "Info" -> "INFO"
    [] level = "Warn" -> "WARN"
    [] level = "Error" -> "ERROR"

\* C13: effective app-name resolution.  Once a single-threaded emit has
\* formed its line, the app-name path is the configured name, replaced by the
\* record's override when there is one, followed by " -> <sub-name>" when
\* the record names a sub-component ("svc" with sub "db" gives "svc -> db",
\* override "other" with sub "db" gives "other -> db"); the plain line holds
\* that path between the level tag and the message, and a plain line the
\* call has appended is the last line of the log file.
C13_AppNameResolution ==
  \A t \in Threads :
    (InExecute(t) /\ Len(loc[t].seen) >= 2) =>
      LET input == loc[t].input_data
          configured == pre[t].store.APP_NAME
          path == loc[t].app_name
      IN  /\ path = DocumentedPath(configured, input)
          /\ ( /\ configured = "svc"
               /\ ~input.has_app_name
               /\ input.has_sub_app_name /\ input.sub_app_name = "db" ) =>
               path = "svc -> db"
          /\ ( /\ input.has_app_name /\ input.app_name = "other"
               /\ input.has_sub_app_name /\ input.sub_app_name = "db" ) =>
               path = "other -> db"
          /\ loc[t].log_message_plain
               \in DocumentedLines(UpperName(input.level), path, input.message)
          /\ ( /\ pc[t] = "done"
               /\ ret[t] = Returned("execute", 0)
               /\ pre[t].store.LOG_TO_FILE
               /\ ~pre[t].store.LOG_TO_FILE_COLORED ) =>
               LET lines == ContentOf(dir, data, pre[t].store.LOG_FILE)
               IN  /\ lines # <<>>
                   /\ lines[Len(lines)] = loc[t].log_message_plain

\* A record with override "other" and sub-component "db", emitted under the
\* configured name "svc" and appended to the log file.
C13_Witness ==
  \E t \in Threads :
    /\ pc[t] = "done"
    /\ InExecute(t)
    /\ store.APP_NAME = "svc"
    /\ loc[t].input_data.has_app_name
    /\ loc[t].input_data.has_sub_app_name
    /\ loc[t].app_name = "other -> db"
    /\ ops[t] # <<>>
    /\ ops[t][Len(ops[t])] = Op("append", store.LOG_FILE, <<>>, TRUE)
    /\ ~store.LOG_TO_FILE_COLORED

\* The console lines the n-th record of a run can make, over the seconds of
\* the clock, the levels and the app-name paths.
RecordLines ==
  [ n \in 1..MaxExec |->
      { FormatColored(LineStamp(c), l, p, MessageOf(n))
          : c \in 1..MaxClock, l \in LevelSet,
            p \in {"svc", "svc -> db", "other", "other -> db"} } ]

\* The number of the record that made a console line.
RecordOf(line) ==
  IF \E n \in 1..MaxExec : line \in RecordLines[n]
  THEN CHOOSE n \in 1..MaxExec : line \in RecordLines[n]
  ELSE 0

\* C14 as stated: with console output on, every record a single thread has
\* emitted has added one line to standard output.
C14_EveryRecordPrints ==
  \A t \in Threads :
    (Ended(t, "execute") /\ InExecute(t) /\ pre[t].store.LOG_TO_CONSOLE) =>
      Len(console) = Len(pre[t].console) + 1

\* C14, with the level check: with console output on, a single-threaded
\* emit of a record at or above the minimum level adds exactly one line, the
\* record's, at the end of standard output, and a record below the minimum
\* adds none; so the lines on standard output are those of the records at or
\* above the minimum, one each, in the order of emission.
C14_PassedRecordsPrintInOrder ==
  /\ \A t \in Threads :
       (Ended(t, "execute") /\ InExecute(t) /\ pre[t].store.LOG_TO_CONSOLE) =>
         IF DocumentedBelow(loc[t].input_data.level,
                            pre[t].store.MIN_LOG_LEVEL)
         THEN console = pre[t].console
         ELSE /\ console = Append(pre[t].console, loc[t].log_message)
              /\ RecordOf(loc[t].log_message) = MaxExec - quota[t].execute
  /\ \A i \in 1..Len(console) :
       /\ RecordOf(console[i]) # 0
       /\ i > 1 => RecordOf(console[i - 1]) < RecordOf(console[i])

\* Three records emitted with console output on: three lines, in order.
C14_Witness ==
  /\ pc[1] = "done"
  /\ ret[1] = Returned("execute", 0)
  /\ store.LOG_TO_CONSOLE
  /\ Len(console) = 3
  /\ \A i \in 1..3 : RecordOf(console[i]) = i

\* C15: bounded retention.  From a directory without archives, while the
\* single-threaded host's configuration (file output and rotation on) is in
\* force, the archives of the log file never number more than
\* max_file_count.
C15_BoundedRetention ==
  ( /\ lifecycle = "configured"
    /\ \A t \in Threads : pc[t] # "i_write"
    /\ store.LOG_TO_FILE
    /\ store.ENABLE_LOG_ROTATION ) =>
    Cardinality(Archives(dir, store.LOG_FILE)) <= store.MAX_LOG_FILE_COUNT

\* A file system call of thread t's rotation has failed: a call of its
\* execute failed for an outside reason, and it was not the open or the
\* write of the log file.
RotationFault(t) ==
  /\ loc[t].fault
  /\ \A o \in Elements(ops[t]) : o.op \in {"open", "append"} => o.ok

\* C16: file system errors during rotation are not fatal.  An emit whose
\* stat, directory listing, delete or rename failed still attempts the
\* append: the call returns, the last thing it did is the append, and it
\* returns 0 when the append succeeded.
C16_RotationErrorsNotFatal ==
  \A t \in Threads :
    (Ended(t, "execute") /\ InExecute(t) /\ RotationFault(t)) =>
      /\ pc[t] = "done"
      /\ ops[t] # <<>>
      /\ ops[t][Len(ops[t])].op = "append"
      /\ ops[t][Len(ops[t])].ok => ret[t] = Returned("execute", 0)

\* The size of a file of lines, each ended by a newline.
RECURSIVE SizeOf(_)
SizeOf(lines) ==
  IF lines = <<>> THEN 0 ELSE Len(lines[1]) + 1 + SizeOf(Tail(lines))

\* C17: size-threshold enforcement.  With file output and rotation on, when
\* a single-threaded emit none of whose system calls failed for an outside
\* reason has appended its line, the log file is no larger than
\* max_file_size_bytes plus that line.
C17_SizeBound ==
  \A t \in Threads :
    ( /\ pc[t] = "done"
      /\ InExecute(t)
      /\ ret[t] = Returned("execute", 0)
      /\ pre[t].store.LOG_TO_FILE
      /\ pre[t].store.ENABLE_LOG_ROTATION
      /\ ~DocumentedBelow(loc[t].input_data.level, pre[t].store.MIN_LOG_LEVEL)
      /\ ~loc[t].fault ) =>
      LET lines == ContentOf(dir, data, pre[t].store.LOG_FILE)
      IN  /\ lines # <<>>
          /\ lines[Len(lines)] = FileLine(t)
          /\ SizeOf(lines) <=
               pre[t].store.MAX_LOG_FILE_SIZE + SizeOf(<< FileLine(t) >>)

\* An emit that found the log file exactly at a threshold above zero and
\* appended to it: the file is at the threshold plus the line.
C17_Witness ==
  \E t \in Threads :
    /\ pc[t] = "done"
    /\ InExecute(t)
    /\ ret[t] = Returned("execute", 0)
    /\ store.LOG_TO_FILE
    /\ store.ENABLE_LOG_ROTATION
    /\ store.MAX_LOG_FILE_SIZE > 0
    /\ ~loc[t].fault
    /\ Len(ContentOf(dir, data, store.LOG_FILE)) = 2
    /\ SizeOf(ContentOf(dir, data, store.LOG_FILE))
         = store.MAX_LOG_FILE_SIZE + SizeOf(<< FileLine(t) >>)

\* The deletes and renames thread t's call has attempted, in order.
RotationOps(t) ==
  SelectSeq(ops[t], LAMBDA o : o.op \in {"remove", "rename"})

\* C18: rotation runs at most once per emit, before the append, and only
\* for a file-bound emit with rotation on.  A single-threaded emit attempts
\* at most one delete and one rename, none of them after it has opened the
\* log file; and an emit that is level-suppressed, or made with log_to_file
\* false, or with rotation off, attempts no delete and no rename and leaves
\* every file name of the directory on its file.
C18_RotationOnlyWhenDue ==
  \A t \in Threads :
    InExecute(t) =>
      /\ Len(SelectSeq(ops[t], LAMBDA o : o.op = "remove")) <= 1
      /\ Len(SelectSeq(ops[t], LAMBDA o : o.op = "rename")) <= 1
      /\ \A i, j \in 1..Len(ops[t]) :
           (i < j /\ ops[t][i].op \in {"open", "create", "append"}) =>
             ops[t][j].op \notin {"remove", "rename"}
      /\ ( \/ DocumentedBelow(loc[t].input_data.level,
                              pre[t].store.MIN_LOG_LEVEL)
           \/ ~pre[t].store.LOG_TO_FILE
           \/ ~pre[t].store.ENABLE_LOG_ROTATION ) =>
           /\ RotationOps(t) = <<>>
           /\ \A n \in DOMAIN pre[t].dir :
                n \in DOMAIN dir /\ dir[n] = pre[t].dir[n]

\* An emit with rotation off that found the log file above the threshold
\* and appended to it.
C18_Witness ==
  \E t \in Threads :
    /\ pc[t] = "done"
    /\ InExecute(t)
    /\ ret[t] = Returned("execute", 0)
    /\ store.LOG_TO_FILE
    /\ ~store.ENABLE_LOG_ROTATION
    /\ store.LOG_FILE \in DOMAIN pre[t].dir
    /\ SizeOf(ContentOf(pre[t].dir, pre[t].data, store.LOG_FILE))
         > store.MAX_LOG_FILE_SIZE
    /\ Len(ContentOf(dir, data, store.LOG_FILE)) >= 2

\* The mutexes thread t holds.
Held(t) == { s \in Statics : owner[s] = t }

\* A thread holds at most one mutex, and a thread that waits for a mutex
\* waits for a thread that is in the statement that locked it and holds
\* nothing else.
LockDiscipline ==
  \A t \in Threads :
    /\ Cardinality(Held(t)) <= 1
    /\ Held(t) # {} => (pc[t] \in LockPoints /\ Held(t) = {Wanted(t)})
    /\ (pc[t] \in LockPoints /\ owner[Wanted(t)] \notin {0, t}) =>
         LET u == owner[Wanted(t)]
         IN  pc[u] \in LockPoints /\ Wanted(u) = Wanted(t)

\* C19: deadlock freedom.  Under concurrent configure, emit and shutdown
\* calls and a fair scheduler, the lock discipline holds in every state and
\* every call that no file system call fails eventually returns a status.
C19_EveryCallReturns ==
  /\ []LockDiscipline
  /\ \A t \in Threads :
       [](pc[t] # "idle" => <>(pc[t] = "done" \/ loc[t].fault))

\* C20: emit never changes the store.  Throughout a single-threaded emit,
\* whatever the record and however the call ends, the nine fields of the
\* store have the values they had when the call began; and a step changes
\* the store only when it is an assignment of configure or of shutdown.
C20_EmitKeepsStore ==
  /\ [](\A t \in Threads :
          (InExecute(t) \/ Ended(t, "execute")) => store = pre[t].store)
  /\ [][store' # store =>
          \E t \in Threads : pc[t] \in {"i_write", "t_write"}]_vars

\* An emit under a configuration that rotated the log file and appended its
\* line.
C20_Witness ==
  \E t \in Threads :
    /\ pc[t] = "done"
    /\ InExecute(t)
    /\ ret[t] = Returned("execute", 0)
    /\ Renames(t) # <<>>
    /\ store # InitialStore
    /\ store = pre[t].store

====
